---- MODULE Spec2Model ----
(***************************************************************************)
(* Model of the schedule extraction and incremental-update reconciliation  *)
(* engine of DNIPRO_PARSER: the Time-Interval Mapper (put_interval), the   *)
(* merge of update posts (put_interval_update, apply_schedule_update,      *)
(* update_schedule_from_message), the full-parse cycle with its change     *)
(* gate (dnipro_telegram_parser.main) and the monitoring pass with its     *)
(* watermark (telegram_updates_monitor.monitor_updates).                   *)
(*                                                                         *)
(* Times are kept in minutes: the code's float hours hh + mm/60 are        *)
(* multiplied by 60, which keeps every comparison the code makes.          *)
(***************************************************************************)
EXTENDS Integers, Sequences, FiniteSets, TLC

VARIABLES
    store,      \* content of output/Dneproblenergo.json, or NoFile
    watermark,  \* content of output/last_processed_message.json, or NoFile
    feed,       \* the channel page: the posts a fetch returns, in page order
    published,  \* the number of posts the channel has shown so far
    now,        \* wall clock: [day, min, ms]
    call,       \* the last operation executed: its inputs, result and effect
    examined,   \* history: the posts examined by the monitoring passes so far
    merged,     \* history: cells set to an outage by a persisted update
    runs        \* history: the number of commands run so far

vars == <<store, watermark, feed, published, now, call, examined, merged, runs>>
hist == <<examined, merged>>

----------------------------------------------------------------------------
(* Vocabulary                                                              *)

\* a file that does not exist
NoFile == [missing |-> TRUE]
\* Python's None where a string is expected (a post id)
None == "None"
\* an optional value: <<>> is None, <<v>> is v
Nothing == <<>>
Just(v) == <<v>>

\* range(1, 25): the hour keys "1".."24" of an Hour Map
LastHour == 24
HourKeys == 1..LastHour

\* minutes in an hour and in half an hour (h_mid = h_start + 0.5, h_end = h_start + 1.0)
HourLen == 60
HalfLen == 30
\* 24.0, the end of the day in the callers' midnight split
DayEnd == 1440

Groups == {"GPV1.1", "GPV4.2"}

AllYes == [h \in HourKeys |-> "yes"]

\* the empty dict; a table is a function from a set of group ids to Hour Maps
EmptyDict == [x \in {} |-> "yes"]

----------------------------------------------------------------------------
(* time_to_hour: "HH:MM" -> hh + mm/60, here in minutes                    *)

time_to_hour(hhmm) == hhmm[1] * HourLen + hhmm[2]

----------------------------------------------------------------------------
(* The Time-Interval Mapper                                                *)

h_start(hour) == (hour - 1) * HourLen
h_mid(hour) == h_start(hour) + HalfLen
h_end(hour) == h_start(hour) + HourLen

first_off(hour, t1, t2) == t1 < h_mid(hour) /\ t2 > h_start(hour)
second_off(hour, t1, t2) == t1 < h_end(hour) /\ t2 > h_mid(hour)

\* put_interval of the full parser: result[group_id] must exist (the parser
\* initialises it before the first call); each touched hour's cell is overwritten.
put_interval_swapped(result, group_id, t1, t2) ==
    [result EXCEPT ![group_id] =
        [hour \in HourKeys |->
            IF first_off(hour, t1, t2) /\ second_off(hour, t1, t2) THEN "no"
            ELSE IF first_off(hour, t1, t2) THEN "second"
            ELSE IF second_off(hour, t1, t2) THEN "first"
            ELSE result[group_id][hour]]]

\* put_interval with the four comparisons taken as non-strict
put_interval_closed(result, group_id, t1, t2) ==
    [result EXCEPT ![group_id] =
        [hour \in HourKeys |->
            LET f == t1 <= h_mid(hour) /\ t2 >= h_start(hour)
                s == t1 <= h_end(hour) /\ t2 >= h_mid(hour)
            IN  IF f /\ s THEN "no"
                ELSE IF f THEN "first"
                ELSE IF s THEN "second"
                ELSE result[group_id][hour]]]

\* put_interval writing "off" where the code writes "no"
put_interval_off(result, group_id, t1, t2) ==
    [result EXCEPT ![group_id] =
        [hour \in HourKeys |->
            IF first_off(hour, t1, t2) /\ second_off(hour, t1, t2) THEN "off"
            ELSE IF first_off(hour, t1, t2) THEN "first"
            ELSE IF second_off(hour, t1, t2) THEN "second"
            ELSE result[group_id][hour]]]

put_interval(result, group_id, t1, t2) ==
    [result EXCEPT ![group_id] =
        [hour \in HourKeys |->
            IF first_off(hour, t1, t2) /\ second_off(hour, t1, t2) THEN "no"
            ELSE IF first_off(hour, t1, t2) THEN "first"
            ELSE IF second_off(hour, t1, t2) THEN "second"
            ELSE result[group_id][hour]]]

\* some hour is touched by (t1, t2): the loop reaches the code after `continue`
touches(t1, t2) == \E hour \in HourKeys : first_off(hour, t1, t2) \/ second_off(hour, t1, t2)

\* put_interval_update of the update parser: creates the group with all "yes"
\* when it is missing and some hour is touched; a half-hour mark on a cell
\* holding the other half escalates to "no".
put_interval_update_noesc(result, group_id, t1, t2) ==
    IF ~touches(t1, t2) THEN result
    ELSE LET base == IF group_id \in DOMAIN result THEN result
                     ELSE [g \in DOMAIN result \cup {group_id} |->
                              IF g = group_id THEN AllYes ELSE result[g]]
         IN  put_interval(base, group_id, t1, t2)

put_interval_update(result, group_id, t1, t2) ==
    IF ~touches(t1, t2) THEN result
    ELSE LET base == IF group_id \in DOMAIN result THEN result
                     ELSE [g \in DOMAIN result \cup {group_id} |->
                              IF g = group_id THEN AllYes ELSE result[g]]
         IN  [base EXCEPT ![group_id] =
                [hour \in HourKeys |->
                    LET f == first_off(hour, t1, t2)
                        s == second_off(hour, t1, t2)
                        old == base[group_id][hour]
                    IN  IF f /\ s THEN "no"
                        ELSE IF f THEN (IF old = "second" THEN "no" ELSE "first")
                        ELSE IF s THEN (IF old = "first" THEN "no" ELSE "second")
                        ELSE old]]

----------------------------------------------------------------------------
(* The Schedule Document and the clock                                     *)

\* datetime(y, m, d, tzinfo=TZ).timestamp(): local midnight of day ordinal d
SecondsPerDay == 86400
day_key(d) == d * SecondsPerDay

\* strftime("%Y-%m-%dT%H:%M:%S.%f")[:-3] + "Z": the instant to the millisecond
utc_stamp(clock) == <<clock.day, clock.min, clock.ms>>
\* strftime("%d.%m.%Y %H:%M"): the instant to the minute
local_stamp(clock) == <<clock.day, clock.min>>

new_json(data, clock) ==
    [regionId |-> "Dnipro",
     lastUpdated |-> utc_stamp(clock),
     fact |-> [data |-> data, update |-> local_stamp(clock), today |-> day_key(clock.day)],
     preset |-> "preset"]

----------------------------------------------------------------------------
(* apply_schedule_update                                                   *)

\* lines 190-197: one interval on one group of the Day Table, through the
\* temporary dict {group_id: date_data[group_id]} that shares the Hour Map
split_interval(tmp, group_id, t1, t2) ==
    IF t2 > DayEnd
    THEN put_interval_update(put_interval_update(tmp, group_id, t1, DayEnd),
                             group_id, 0, t2 - DayEnd)
    ELSE put_interval_update(tmp, group_id, t1, t2)

\* the interval applied to every group of the Day Table
apply_interval_all_groups(date_data, group_id, t1, t2) ==
    [g \in DOMAIN date_data |->
        split_interval([x \in {g} |-> date_data[g]], g, t1, t2)[g]]

apply_interval(date_data, group_id, t1, t2) ==
    [date_data EXCEPT ![group_id] =
        split_interval([g \in {group_id} |-> date_data[group_id]], group_id, t1, t2)[group_id]]

RECURSIVE apply_intervals(_, _, _)
apply_intervals(date_data, group_id, intervals) ==
    IF intervals = <<>> THEN date_data
    ELSE apply_intervals(apply_interval(date_data, group_id, Head(intervals)[1], Head(intervals)[2]),
                         group_id, Tail(intervals))

\* lines 181-210: the loop over the target groups; acc = [date_data, changes_made]
\* one target group: skipped with a warning when the Day Table lacks it
apply_group_create(acc, group_id, intervals) ==
    LET base == IF group_id \in DOMAIN acc.date_data THEN acc.date_data
                ELSE [x \in DOMAIN acc.date_data \cup {group_id} |->
                         IF x = group_id THEN AllYes ELSE acc.date_data[x]]
        after == apply_intervals(base, group_id, intervals)
    IN  [date_data |-> after,
         changes_made |-> acc.changes_made \/ after[group_id] /= AllYes
                             \/ (group_id \in DOMAIN acc.date_data
                                 /\ after[group_id] /= acc.date_data[group_id])]

\* lines 200-201: compare the group's Hour Map with its original_state
group_changed(acc, group_id, after) ==
    [date_data |-> after,
     changes_made |-> acc.changes_made \/ after[group_id] /= acc.date_data[group_id]]

apply_group(acc, group_id, intervals) ==
    IF group_id \notin DOMAIN acc.date_data THEN acc
    ELSE group_changed(acc, group_id, apply_intervals(acc.date_data, group_id, intervals))

RECURSIVE apply_groups(_, _, _)
apply_groups(acc, groups, intervals) ==
    IF groups = <<>> THEN acc
    ELSE apply_groups(apply_group(acc, Head(groups), intervals), Tail(groups), intervals)

target_timestamp(target_date, clock) ==
    IF target_date = Nothing THEN day_key(clock.day) ELSE day_key(target_date[1])

\* the result is [json_data, changes_made]: the document as mutated in memory
\* and the value returned
apply_schedule_update_always_stamp(json_data, groups, intervals, target_date, clock) ==
    IF groups = <<>> \/ intervals = <<>> THEN [json_data |-> json_data, changes_made |-> FALSE]
    ELSE LET key == target_timestamp(target_date, clock)
             fact_data == json_data.fact.data
         IN  IF key \notin DOMAIN fact_data
             THEN [json_data |-> [json_data EXCEPT !.lastUpdated = utc_stamp(clock),
                                                   !.fact.update = local_stamp(clock)],
                   changes_made |-> FALSE]
             ELSE LET r == apply_groups([date_data |-> fact_data[key], changes_made |-> FALSE],
                                        groups, intervals)
                  IN  [json_data |-> [json_data EXCEPT !.fact.data[key] = r.date_data,
                                                       !.lastUpdated = utc_stamp(clock),
                                                       !.fact.update = local_stamp(clock)],
                       changes_made |-> r.changes_made]

apply_schedule_update_setdefault(json_data, groups, intervals, target_date, clock) ==
    IF groups = <<>> \/ intervals = <<>> THEN [json_data |-> json_data, changes_made |-> FALSE]
    ELSE LET key == target_timestamp(target_date, clock)
             fact_data == json_data.fact.data
             filled == [k \in DOMAIN fact_data \cup {key} |->
                           IF k \in DOMAIN fact_data THEN fact_data[k] ELSE EmptyDict]
             r == apply_groups([date_data |-> filled[key], changes_made |-> FALSE],
                               groups, intervals)
             d1 == [json_data EXCEPT !.fact.data = [filled EXCEPT ![key] = r.date_data]]
         IN  [json_data |-> IF r.changes_made
                            THEN [d1 EXCEPT !.lastUpdated = utc_stamp(clock),
                                            !.fact.update = local_stamp(clock)]
                            ELSE d1,
              changes_made |-> r.changes_made]

\* stamp_changes without the two timestamp assignments
stamp_changes_unstamped(json_data, key, r, clock) ==
    [json_data |-> [json_data EXCEPT !.fact.data[key] = r.date_data],
     changes_made |-> r.changes_made]

\* lines 212-217: the timestamps move only under changes_made; r is the
\* result of the loop over the groups, which mutated the Day Table in place
stamp_changes(json_data, key, r, clock) ==
    [json_data |-> IF r.changes_made
                   THEN [json_data EXCEPT !.fact.data[key] = r.date_data,
                                          !.lastUpdated = utc_stamp(clock),
                                          !.fact.update = local_stamp(clock)]
                   ELSE [json_data EXCEPT !.fact.data[key] = r.date_data],
     changes_made |-> r.changes_made]

apply_schedule_update(json_data, groups, intervals, target_date, clock) ==
    IF groups = <<>> \/ intervals = <<>> THEN [json_data |-> json_data, changes_made |-> FALSE]
    ELSE IF target_timestamp(target_date, clock) \notin DOMAIN json_data.fact.data
    THEN [json_data |-> json_data, changes_made |-> FALSE]
    ELSE stamp_changes(json_data, target_timestamp(target_date, clock),
                       apply_groups([date_data |-> json_data.fact.data[
                                                       target_timestamp(target_date, clock)],
                                     changes_made |-> FALSE],
                                    groups, intervals),
                       clock)

----------------------------------------------------------------------------
(* Post texts.  A text is a sequence of tokens, one per substring that a   *)
(* regular expression or a keyword test of the parsers can see:            *)
(*   ref   f g   "підчерги X.Y" (f=1), "черги X.Y" (f=2),                  *)
(*               "підчерга X.Y" (f=3), "черга X.Y" (f=4)                   *)
(*   iv    a b   "з HH:MM до HH:MM"                                        *)
(*   until b     "продовжується до HH:MM"                                  *)
(*   kw          an update keyword naming no group ("додатково відключення")*)
(*   decl  f g   "📌 X.Y черга:" (f=1) or "📌 X.Y черги:" (f=2)            *)
(*   date  d     a date of day ordinal d                                   *)
(*   skw         a schedule keyword ("графік відключень")                  *)
(*   warn        "Попереджаємо"                                            *)
(*   word        any other text                                            *)

Tok(k, f, g, a, b) == [k |-> k, f |-> f, g |-> g, a |-> a, b |-> b]
NoTime == <<0, 0>>
Ref(f, g) == Tok("ref", f, g, NoTime, NoTime)
Iv(a, b) == Tok("iv", 0, "", a, b)
Until(b) == Tok("until", 0, "", NoTime, b)
Kw == Tok("kw", 0, "", NoTime, NoTime)
Decl(f, g) == Tok("decl", f, g, NoTime, NoTime)
DateTok(d) == Tok("date", d, "", NoTime, NoTime)
Skw == Tok("skw", 0, "", NoTime, NoTime)
Warn == Tok("warn", 0, "", NoTime, NoTime)
Word == Tok("word", 0, "", NoTime, NoTime)

\* UPDATE_KEYWORDS: "підчерги" and "черги" are keywords themselves, so a plural
\* reference and a "черги:" declaration qualify; the singular forms do not
is_update_message(text) ==
    \E i \in 1..Len(text) :
        \/ text[i].k \in {"kw", "until"}
        \/ text[i].k = "ref" /\ text[i].f \in {1, 2}
        \/ text[i].k = "decl" /\ text[i].f = 2

\* re.findall(patterns[p], text): the p-th pattern matches inside the longer
\* word too ("черги" inside "підчерги", "черга" inside "підчерга")
pattern_matches(p, tok) ==
    /\ tok.k = "ref"
    /\ \/ p = 1 /\ tok.f = 1
       \/ p = 2 /\ tok.f \in {1, 2}
       \/ p = 3 /\ tok.f = 3
       \/ p = 4 /\ tok.f \in {3, 4}

RECURSIVE append_matches(_, _, _, _)
append_matches(groups, p, text, i) ==
    IF i > Len(text) THEN groups
    ELSE LET hit == pattern_matches(p, text[i])
                      /\ ~\E j \in 1..Len(groups) : groups[j] = text[i].g
         IN  append_matches(IF hit THEN Append(groups, text[i].g) ELSE groups, p, text, i + 1)

NumPatterns == 4

RECURSIVE parse_group_loop(_, _, _)
parse_group_loop(groups, p, text) ==
    IF p > NumPatterns THEN groups
    ELSE parse_group_loop(append_matches(groups, p, text, 1), p + 1, text)

parse_group_number(text) == parse_group_loop(<<>>, 1, text)

RECURSIVE explicit_intervals(_, _)
explicit_intervals(text, i) ==
    IF i > Len(text) THEN <<>>
    ELSE IF text[i].k = "iv"
         THEN <<<<time_to_hour(text[i].a), time_to_hour(text[i].b)>>>>
                  \o explicit_intervals(text, i + 1)
         ELSE explicit_intervals(text, i + 1)

\* "продовжується до HH:MM": t1 is the wall clock, t2 rolls to the next day
RECURSIVE until_intervals(_, _, _)
until_intervals(text, i, clock) ==
    IF i > Len(text) THEN <<>>
    ELSE IF text[i].k = "until"
         THEN LET t1 == clock.min
                  t2 == time_to_hour(text[i].b)
              IN  <<<<t1, IF t2 <= t1 THEN t2 + DayEnd ELSE t2>>>>
                      \o until_intervals(text, i + 1, clock)
         ELSE until_intervals(text, i + 1, clock)

parse_time_intervals(text, clock) ==
    explicit_intervals(text, 1) \o until_intervals(text, 1, clock)

\* found = FALSE is the None result
no_update_info == [found |-> FALSE, groups |-> <<>>, intervals |-> <<>>]

\* lines 233-246: both lists must be non-empty
\* update_info_of without the two emptiness tests
update_info_of_partial(groups, intervals) ==
    [found |-> TRUE, groups |-> groups, intervals |-> intervals]

update_info_of(groups, intervals) ==
    IF groups = <<>> THEN no_update_info
    ELSE IF intervals = <<>> THEN no_update_info
    ELSE [found |-> TRUE, groups |-> groups, intervals |-> intervals]

process_update_message(text, clock) ==
    IF ~is_update_message(text) THEN no_update_info
    ELSE update_info_of(parse_group_number(text), parse_time_intervals(text, clock))

----------------------------------------------------------------------------
(* update_schedule_from_message: parse, load, merge, save.  io_ok is       *)
(* whether opening the document for writing succeeds.  The result holds    *)
(* the file afterwards, the value returned, whether the file was written,  *)
(* whether apply_schedule_update was reached, and its input and output.    *)

no_merge(file) ==
    [store |-> file, ret |-> FALSE, wrote |-> FALSE, applied |-> FALSE,
     groups |-> <<>>, intervals |-> <<>>, json_data |-> file, changes_made |-> FALSE]

update_schedule_from_message_write_always(message_text, target_date, file, clock, io_ok) ==
    LET update_info == process_update_message(message_text, clock)
    IN  IF ~update_info.found THEN no_merge(file)
        ELSE IF file = NoFile THEN no_merge(file)
        ELSE LET r == apply_schedule_update(file, update_info.groups, update_info.intervals,
                                            target_date, clock)
             IN  [store |-> IF io_ok THEN r.json_data ELSE file,
                  ret |-> io_ok,
                  wrote |-> io_ok,
                  applied |-> TRUE,
                  groups |-> update_info.groups,
                  intervals |-> update_info.intervals,
                  json_data |-> r.json_data,
                  changes_made |-> r.changes_made]

\* lines 294-302: the document is saved only when apply_schedule_update
\* returned true; r is its result
save_changes(update_info, file, io_ok, r) ==
    [store |-> IF r.changes_made /\ io_ok THEN r.json_data ELSE file,
     ret |-> r.changes_made /\ io_ok,
     wrote |-> r.changes_made /\ io_ok,
     applied |-> TRUE,
     groups |-> update_info.groups,
     intervals |-> update_info.intervals,
     json_data |-> r.json_data,
     changes_made |-> r.changes_made]

\* lines 260-302, once the message is parsed
merge_update(update_info, target_date, file, clock, io_ok) ==
    IF ~update_info.found THEN no_merge(file)
    ELSE IF file = NoFile THEN no_merge(file)
    ELSE save_changes(update_info, file, io_ok,
                      apply_schedule_update(file, update_info.groups, update_info.intervals,
                                            target_date, clock))

update_schedule_from_message(message_text, target_date, file, clock, io_ok) ==
    merge_update(process_update_message(message_text, clock), target_date, file, clock, io_ok)

----------------------------------------------------------------------------
(* The Full-Schedule Parser                                                *)

\* KEYWORDS: "черга:" is a keyword itself, "черги:" is not
is_schedule_post(text) ==
    \E i \in 1..Len(text) :
        text[i].k = "skw" \/ (text[i].k = "decl" /\ text[i].f = 1)

\* the first date match wins (the first pattern is case-insensitive, so it
\* already matches every "<day> <month>"); the year is the current one
extract_date_from_post(text) ==
    LET hits == {i \in 1..Len(text) : text[i].k = "date"}
    IN  IF hits = {} THEN Nothing
        ELSE Just(text[CHOOSE i \in hits : \A j \in hits : i <= j].f)

\* lines 265-275: the last token of the scope of the declaration at index i
scope_end(text, i) ==
    LET later == {j \in (i + 1)..Len(text) : text[j].k = "decl"}
        warns == {j \in (i + 1)..Len(text) : text[j].k = "warn"}
    IN  IF later /= {} THEN (CHOOSE j \in later : \A x \in later : j <= x) - 1
        ELSE IF warns /= {} THEN (CHOOSE j \in warns : \A x \in warns : j <= x) - 1
        ELSE Len(text)

\* lines 283-295: one "з HH:MM до HH:MM" of a group's scope
mark_interval_nosplit(result, group_id, tok) ==
    put_interval(result, group_id, time_to_hour(tok.a), time_to_hour(tok.b))

mark_interval(result, group_id, tok) ==
    LET t1 == time_to_hour(tok.a)
        t2 == time_to_hour(tok.b)
    IN  IF t2 <= t1
        THEN put_interval(put_interval(result, group_id, t1, DayEnd), group_id, 0, t2)
        ELSE put_interval(result, group_id, t1, t2)

RECURSIVE mark_scope(_, _, _, _, _)
mark_scope(result, group_id, text, i, last) ==
    IF i > last THEN result
    ELSE mark_scope(IF text[i].k = "iv" THEN mark_interval(result, group_id, text[i])
                    ELSE result,
                    group_id, text, i + 1, last)

\* lines 257-299, from token i on: each declaration (re)initialises its group
\* to all "yes" and marks the intervals of its scope
RECURSIVE parse_from(_, _, _)
parse_from(result, text, i) ==
    IF i > Len(text) THEN result
    ELSE IF text[i].k /= "decl" THEN parse_from(result, text, i + 1)
    ELSE LET group_id == text[i].g
             fresh == [g \in DOMAIN result \cup {group_id} |->
                          IF g = group_id THEN AllYes ELSE result[g]]
         IN  parse_from(mark_scope(fresh, group_id, text, i + 1, scope_end(text, i)),
                        text, i + 1)

\* the parser started from a table that already holds every group
parse_schedule_from_text_all_groups(text) ==
    parse_from([g \in Groups |-> AllYes], text, 1)

parse_schedule_from_text(text) == parse_from(EmptyDict, text, 1)

----------------------------------------------------------------------------
(* The full-parse cycle: dnipro_telegram_parser.main                       *)

\* fetch_posts keeps the posts of the page whose text has a schedule keyword
RECURSIVE fetch_posts(_)
fetch_posts(page) ==
    IF page = <<>> THEN <<>>
    ELSE (IF is_schedule_post(Head(page).text) THEN <<Head(page)>> ELSE <<>>)
             \o fetch_posts(Tail(page))

\* lines 322-371: the first post of each of today and tomorrow that yields a
\* table fills results_for_all_dates
RECURSIVE collect_results_last_wins(_, _, _)
collect_results_last_wins(results, posts, clock) ==
    IF posts = <<>> THEN results
    ELSE LET date_str == extract_date_from_post(Head(posts).text)
             result == parse_schedule_from_text(Head(posts).text)
             skip == \/ date_str = Nothing
                     \/ date_str[1] \notin {clock.day, clock.day + 1}
                     \/ result = EmptyDict
         IN  collect_results_last_wins(
                 IF skip THEN results
                 ELSE [k \in DOMAIN results \cup {day_key(date_str[1])} |->
                          IF k = day_key(date_str[1]) THEN result ELSE results[k]],
                 Tail(posts), clock)

\* collect_results without the test of the date against today and tomorrow
RECURSIVE collect_results_any_date(_, _, _)
collect_results_any_date(results, posts, clock) ==
    IF posts = <<>> THEN results
    ELSE LET date_str == extract_date_from_post(Head(posts).text)
             result == parse_schedule_from_text(Head(posts).text)
             skip == \/ date_str = Nothing
                     \/ day_key(date_str[1]) \in DOMAIN results
                     \/ result = EmptyDict
         IN  collect_results_any_date(
                 IF skip THEN results
                 ELSE [k \in DOMAIN results \cup {day_key(date_str[1])} |->
                          IF k = day_key(date_str[1]) THEN result ELSE results[k]],
                 Tail(posts), clock)

RECURSIVE collect_results(_, _, _)
collect_results(results, posts, clock) ==
    IF posts = <<>> THEN results
    ELSE LET date_str == extract_date_from_post(Head(posts).text)
             result == parse_schedule_from_text(Head(posts).text)
             skip == \/ date_str = Nothing
                     \/ date_str[1] \notin {clock.day, clock.day + 1}
                     \/ day_key(date_str[1]) \in DOMAIN results
                     \/ result = EmptyDict
         IN  collect_results(
                 IF skip THEN results
                 ELSE [k \in DOMAIN results \cup {day_key(date_str[1])} |->
                          IF k = day_key(date_str[1]) THEN result ELSE results[k]],
                 Tail(posts), clock)

\* the result of one cycle: the file afterwards, the value returned, whether
\* the file was written, whether the cycle ended by an exception (a failed
\* fetch or write), and the candidate it compared
no_parse(file, raised) ==
    [store |-> file, ret |-> FALSE, wrote |-> FALSE, raised |-> raised,
     candidate |-> EmptyDict]

write_results_no_gate(file, results, clock, io_ok) ==
    IF results = EmptyDict THEN no_parse(file, FALSE)
    ELSE IF ~io_ok
    THEN [store |-> file, ret |-> FALSE, wrote |-> FALSE, raised |-> TRUE,
          candidate |-> results]
    ELSE [store |-> new_json(results, clock), ret |-> TRUE, wrote |-> TRUE,
          raised |-> FALSE, candidate |-> results]


\* lines 368-425: the change gate and the write; results is results_for_all_dates
write_results(file, results, clock, io_ok) ==
    IF results = EmptyDict THEN no_parse(file, FALSE)
    ELSE IF file /= NoFile /\ file.fact.data = results
    THEN [store |-> file, ret |-> FALSE, wrote |-> FALSE, raised |-> FALSE,
          candidate |-> results]
    ELSE IF ~io_ok
    THEN [store |-> file, ret |-> FALSE, wrote |-> FALSE, raised |-> TRUE,
          candidate |-> results]
    ELSE [store |-> new_json(results, clock), ret |-> TRUE, wrote |-> TRUE,
          raised |-> FALSE, candidate |-> results]

\* the order in which the loop of lines 322-371 inserts the day-keys into
\* results_for_all_dates
RECURSIVE collect_order(_, _, _)
collect_order(order, posts, clock) ==
    IF posts = <<>> THEN order
    ELSE LET date_str == extract_date_from_post(Head(posts).text)
             skip == \/ date_str = Nothing
                     \/ date_str[1] \notin {clock.day, clock.day + 1}
                     \/ \E j \in 1..Len(order) : order[j] = day_key(date_str[1])
                     \/ parse_schedule_from_text(Head(posts).text) = EmptyDict
         IN  collect_order(IF skip THEN order ELSE Append(order, day_key(date_str[1])),
                           Tail(posts), clock)

\* sorted(items, key=int): the keys from the smallest to the largest
RECURSIVE insert_key(_, _)
insert_key(sorted, key) ==
    IF sorted = <<>> THEN <<key>>
    ELSE IF key < Head(sorted) THEN <<key>> \o sorted
    ELSE <<Head(sorted)>> \o insert_key(Tail(sorted), key)

\* the keys written in the order of their insertion
sorted_keys_as_inserted(order) == order

RECURSIVE sorted_keys(_)
sorted_keys(order) ==
    IF order = <<>> THEN <<>>
    ELSE insert_key(sorted_keys(SubSeq(order, 1, Len(order) - 1)), order[Len(order)])

\* the result r of the cycle with the order of the day-keys in the file it wrote
written_order(r, order) ==
    [store |-> r.store, ret |-> r.ret, wrote |-> r.wrote, raised |-> r.raised,
     candidate |-> r.candidate, key_order |-> IF r.wrote THEN order ELSE <<>>]

parser_main(file, page, clock, fetch_ok, io_ok) ==
    IF ~fetch_ok THEN written_order(no_parse(file, TRUE), <<>>)
    ELSE written_order(
             write_results(file, collect_results(EmptyDict, fetch_posts(page), clock),
                           clock, io_ok),
             sorted_keys(collect_order(<<>>, fetch_posts(page), clock)))

----------------------------------------------------------------------------
(* The monitoring pass: telegram_updates_monitor.monitor_updates           *)

\* fetch_recent_posts(limit=10): the first `limit` posts of the page
FetchLimit == 10
fetch_recent_posts(page) ==
    IF Len(page) <= FetchLimit THEN page ELSE SubSeq(page, 1, FetchLimit)

\* load_last_processed_message: a missing file reads as {None, None}
load_last_processed_message(wm) ==
    IF wm = NoFile THEN [last_id |-> None, last_date |-> Nothing] ELSE wm

\* a missing last_date makes every post newer; a post without a date makes
\* fromisoformat raise, which also answers True
is_newer_post(post_date, last_date) ==
    IF last_date = Nothing THEN TRUE
    ELSE IF post_date = Nothing THEN TRUE
    ELSE post_date[1] > last_date[1]

\* the cells of document `after` that hold an outage and differ from `before`
Outage == {"no", "first", "second"}
outage_cells(before, after) ==
    IF after = NoFile THEN {}
    ELSE {c \in UNION {UNION {{<<k, g, h>> : h \in HourKeys}
                                : g \in DOMAIN after.fact.data[k]}
                         : k \in DOMAIN after.fact.data} :
            /\ after.fact.data[c[1]][c[2]][c[3]] \in Outage
            /\ ~(/\ before /= NoFile
                 /\ c[1] \in DOMAIN before.fact.data
                 /\ c[2] \in DOMAIN before.fact.data[c[1]]
                 /\ before.fact.data[c[1]][c[2]][c[3]] = after.fact.data[c[1]][c[2]][c[3]])}

\* lines 172-210, one post of the loop.  acc holds the file, the latest
\* processed id and date, updates_applied, the posts examined so far in this
\* pass (seen), and the cells the written updates set to an outage.
\* how the merge of an update post into `file` failed, r being the result of
\* update_schedule_from_message: the target day-key is missing (lines 172-175
\* of the update parser), or the write raised (lines 300-302)
merge_failure(file, r, clock) ==
    IF r.applied /\ target_timestamp(Nothing, clock) \notin DOMAIN file.fact.data
    THEN "missing_day"
    ELSE IF r.changes_made /\ ~r.wrote THEN "write_failed"
    ELSE "none"

\* lines 197-210: r is the result of update_schedule_from_message on the post.
\* writes lists the document before and after each write of the pass; failed
\* holds, for each post of seen, how its merge failed
applied_update(acc, post, r, clock) ==
    [store |-> r.store,
     latest_processed_id |-> post.id,
     latest_processed_date |-> post.date,
     updates_applied |-> acc.updates_applied \/ r.ret,
     seen |-> Append(acc.seen, post),
     cells |-> acc.cells \cup (IF r.wrote THEN outage_cells(acc.store, r.store) ELSE {}),
     writes |-> IF r.wrote THEN Append(acc.writes, <<acc.store, r.store>>) ELSE acc.writes,
     failed |-> Append(acc.failed, merge_failure(acc.store, r, clock))]

examine_skip_by_id_only(acc, post, last, clock, io_ok) ==
    IF post.id = last.last_id THEN acc
    ELSE IF ~is_update_message(post.text)
    THEN [acc EXCEPT !.latest_processed_id = post.id,
                     !.latest_processed_date = post.date,
                     !.seen = Append(acc.seen, post),
                     !.failed = Append(acc.failed, "none")]
    ELSE applied_update(acc, post,
             update_schedule_from_message(post.text, Nothing, acc.store, clock, io_ok),
             clock)

examine_keep_watermark_on_noise(acc, post, last, clock, io_ok) ==
    IF post.id = last.last_id THEN acc
    ELSE IF ~is_newer_post(post.date, last.last_date) THEN acc
    ELSE IF ~is_update_message(post.text)
    THEN [acc EXCEPT !.seen = Append(acc.seen, post),
                     !.failed = Append(acc.failed, "none")]
    ELSE applied_update(acc, post,
             update_schedule_from_message(post.text, Nothing, acc.store, clock, io_ok),
             clock)

examine(acc, post, last, clock, io_ok) ==
    IF post.id = last.last_id THEN acc
    ELSE IF ~is_newer_post(post.date, last.last_date) THEN acc
    ELSE IF ~is_update_message(post.text)
    THEN [acc EXCEPT !.latest_processed_id = post.id,
                     !.latest_processed_date = post.date,
                     !.seen = Append(acc.seen, post),
                     !.failed = Append(acc.failed, "none")]
    ELSE applied_update(acc, post,
             update_schedule_from_message(post.text, Nothing, acc.store, clock, io_ok),
             clock)

\* for post in reversed(posts): from the last post of the page to the first
RECURSIVE examine_reversed(_, _, _, _, _)
examine_reversed(acc, posts, last, clock, io_ok) ==
    IF posts = <<>> THEN acc
    ELSE examine_reversed(examine(acc, posts[Len(posts)], last, clock, io_ok),
                          SubSeq(posts, 1, Len(posts) - 1), last, clock, io_ok)

\* the result of one pass: the two files afterwards, the value returned, the
\* posts examined in order, the cells set to an outage in the document, the
\* writes of the document and the failures of the merges
no_pass(file, wm) ==
    [store |-> file, watermark |-> wm, ret |-> FALSE, seen |-> <<>>, cells |-> {},
     writes |-> <<>>, failed |-> <<>>]

\* lines 212-222: the watermark is saved when the latest processed id moved
end_pass(wm, last, acc) ==
    [store |-> acc.store,
     watermark |-> IF acc.latest_processed_id /= last.last_id
                   THEN [last_id |-> acc.latest_processed_id,
                         last_date |-> acc.latest_processed_date]
                   ELSE wm,
     ret |-> acc.updates_applied,
     seen |-> acc.seen,
     cells |-> acc.cells,
     writes |-> acc.writes,
     failed |-> acc.failed]

\* lines 160-210: the loop over the posts, from the loaded watermark `last`
run_pass(file, wm, posts, last, clock, io_ok) ==
    end_pass(wm, last,
             examine_reversed([store |-> file,
                               latest_processed_id |-> last.last_id,
                               latest_processed_date |-> last.last_date,
                               updates_applied |-> FALSE,
                               seen |-> <<>>,
                               cells |-> {},
                               writes |-> <<>>,
                               failed |-> <<>>],
                              posts, last, clock, io_ok))

\* monitor_updates that goes on with the page it has when the fetch fails
monitor_updates_despite_fetch(file, wm, page, clock, fetch_ok, io_ok) ==
    IF fetch_recent_posts(page) = <<>> THEN no_pass(file, wm)
    ELSE run_pass(file, wm, fetch_recent_posts(page), load_last_processed_message(wm),
                  clock, io_ok)

monitor_updates(file, wm, page, clock, fetch_ok, io_ok) ==
    IF ~fetch_ok THEN no_pass(file, wm)
    ELSE IF fetch_recent_posts(page) = <<>> THEN no_pass(file, wm)
    ELSE run_pass(file, wm, fetch_recent_posts(page), load_last_processed_message(wm),
                  clock, io_ok)

----------------------------------------------------------------------------
(* SpecMerge: the mapper and the merge as functions.  Init draws the       *)
(* document a store can hold; each behaviour is one call on it, recorded   *)
(* in `call` with its input and its output.  put_interval,                 *)
(* put_interval_update and apply_schedule_update work on the loaded        *)
(* document in memory; only update_schedule_from_message writes the file.  *)

MaxGroupsArg == 2
MaxIntervals == 1

SeqsUpTo(S, n) == UNION {[1..k -> S] : k \in 0..n}

\* the instant of the calls, 00:30 of day 0, and an earlier instant of that day
MergeClock == [day |-> 0, min |-> HalfLen, ms |-> 1]
EarlierClock == [day |-> 0, min |-> 0, ms |-> 0]

TimePoints == {0, HalfLen, HourLen, HourLen + HalfLen, DayEnd - HalfLen, DayEnd}

IntervalArgs ==
    {<<0, HalfLen>>, <<HalfLen, HourLen>>, <<0, HourLen>>, <<HourLen, DayEnd>>,
     <<HalfLen, HourLen + HalfLen>>, <<DayEnd - HalfLen, DayEnd>>,
     <<HalfLen, DayEnd + HalfLen>>, <<HourLen, HalfLen>>, <<HourLen, 5 * HourLen>>}

TargetDates == {Nothing, Just(1)}

InitMaps ==
    {AllYes, [AllYes EXCEPT ![LastHour] = "first"],
     [AllYes EXCEPT ![1] = "second", ![LastHour] = "first"]}
        \cup {[AllYes EXCEPT ![1] = s] : s \in {"first", "second", "no"}}
InitTables == UNION {[S -> InitMaps] : S \in SUBSET Groups}
\* a document of two days, the second with an outage
TwoDayData ==
    [k \in {day_key(0), day_key(1)} |->
        [g \in Groups |-> IF k = day_key(0) THEN AllYes ELSE [AllYes EXCEPT ![1] = "no"]]]
InitData ==
    {EmptyDict, TwoDayData}
        \cup UNION {{[k \in {day_key(d)} |-> t] : t \in InitTables} : d \in {0, 1}}
InitStores == {NoFile} \cup {new_json(data, EarlierClock) : data \in InitData}

T0 == <<0, 0>>
T0030 == <<0, 30>>
T0100 == <<1, 0>>

MergeTexts ==
    {<<Kw, Iv(T0, T0030), Ref(1, "GPV1.1")>>,
     <<Ref(2, "GPV4.2"), Iv(T0030, T0100)>>,
     <<Ref(1, "GPV1.1"), Ref(1, "GPV4.2"), Iv(T0, T0100)>>,
     <<Ref(1, "GPV1.1"), Until(T0100)>>,
     <<Ref(2, "GPV4.2"), Until(T0030)>>,
     <<Ref(1, "GPV1.1"), Iv(T0100, T0030)>>,
     <<Kw, Iv(T0, T0100)>>,
     <<Ref(1, "GPV1.1")>>,
     <<Ref(3, "GPV1.1"), Iv(T0, T0100)>>,
     <<Word>>}

NoCall == [op |-> "none"]

InitMerge ==
    /\ store \in InitStores
    /\ watermark = NoFile
    /\ feed = <<>>
    /\ published = 0
    /\ now = MergeClock
    /\ call = NoCall
    /\ examined = {}
    /\ merged = {}
    /\ runs = 0

CallPutInterval ==
    /\ call = NoCall
    /\ store /= NoFile
    /\ \E key \in DOMAIN store.fact.data :
       \E group_id \in DOMAIN store.fact.data[key] :
       \E t1 \in TimePoints, t2 \in TimePoints :
          call' = [op |-> "put_interval", group_id |-> group_id, t1 |-> t1, t2 |-> t2,
                   pre |-> store.fact.data[key],
                   post |-> put_interval(store.fact.data[key], group_id, t1, t2)]
    /\ UNCHANGED <<store, watermark, feed, published, now, hist, runs>>

CallPutIntervalUpdate ==
    /\ call = NoCall
    /\ store /= NoFile
    /\ \E key \in DOMAIN store.fact.data :
       \E group_id \in Groups :
       \E t1 \in TimePoints, t2 \in TimePoints :
          call' = [op |-> "put_interval_update", group_id |-> group_id, t1 |-> t1, t2 |-> t2,
                   pre |-> store.fact.data[key],
                   post |-> put_interval_update(store.fact.data[key], group_id, t1, t2)]
    /\ UNCHANGED <<store, watermark, feed, published, now, hist, runs>>

CallApply ==
    /\ call = NoCall
    /\ store /= NoFile
    /\ \E groups \in SeqsUpTo(Groups, MaxGroupsArg) :
       \E intervals \in SeqsUpTo(IntervalArgs, MaxIntervals) :
       \E target_date \in TargetDates :
          LET r == apply_schedule_update(store, groups, intervals, target_date, now)
          IN  call' = [op |-> "apply_schedule_update", groups |-> groups,
                       intervals |-> intervals, target_date |-> target_date,
                       pre |-> store, post |-> r.json_data, ret |-> r.changes_made]
    /\ UNCHANGED <<store, watermark, feed, published, now, hist, runs>>

CallUpdateFromMessage ==
    /\ call = NoCall
    /\ \E text \in MergeTexts, target_date \in TargetDates, io_ok \in BOOLEAN :
          LET r == update_schedule_from_message(text, target_date, store, now, io_ok)
          IN  /\ store' = r.store
              /\ call' = [op |-> "update_schedule_from_message", text |-> text,
                          target_date |-> target_date, io_ok |-> io_ok, pre |-> store,
                          applied |-> r.applied, groups |-> r.groups,
                          intervals |-> r.intervals, post |-> r.json_data,
                          changes_made |-> r.changes_made, wrote |-> r.wrote, ret |-> r.ret]
    /\ UNCHANGED <<watermark, feed, published, now, hist, runs>>

NextMerge ==
    \/ CallPutInterval
    \/ CallPutIntervalUpdate
    \/ CallApply
    \/ CallUpdateFromMessage

SpecMerge == InitMerge /\ [][NextMerge]_vars

----------------------------------------------------------------------------
(* Properties of the mapper and the merge, checked under SpecMerge         *)

IsMapperCall(op) == call.op = op /\ call.group_id \in DOMAIN call.pre
ValidInterval(t1, t2) == 0 <= t1 /\ t1 < t2 /\ t2 <= DayEnd

\* the two halves of hour h that the interval (t1, t2) covers, from the slot
\* boundaries start = h-1, mid = start + 0.5, end = start + 1 (in minutes)
CoversFirst(h, t1, t2) == t1 < (h - 1) * 60 + 30 /\ t2 > (h - 1) * 60
CoversSecond(h, t1, t2) == t1 < h * 60 /\ t2 > (h - 1) * 60 + 30

\* C1: put_interval sets hour h to "no" when the interval covers both halves,
\* to "first" when it covers only the first half, to "second" when it covers
\* only the second half, and leaves the cell (and every other group) unchanged
\* otherwise.
C1_MapperRule ==
    (IsMapperCall("put_interval") /\ ValidInterval(call.t1, call.t2)) =>
        /\ DOMAIN call.post = DOMAIN call.pre
        /\ \A g \in DOMAIN call.pre \ {call.group_id} : call.post[g] = call.pre[g]
        /\ \A h \in 1..24 :
            LET f == CoversFirst(h, call.t1, call.t2)
                s == CoversSecond(h, call.t1, call.t2)
                cell == call.post[call.group_id][h]
            IN  /\ (f /\ s) => cell = "no"
                /\ (f /\ ~s) => cell = "first"
                /\ (~f /\ s) => cell = "second"
                /\ (~f /\ ~s) => cell = call.pre[call.group_id][h]

C1_Witness ==
    /\ IsMapperCall("put_interval") /\ ValidInterval(call.t1, call.t2)
    /\ \E h1, h2, h3 \in 1..24 :
        /\ CoversFirst(h1, call.t1, call.t2) /\ ~CoversSecond(h1, call.t1, call.t2)
        /\ call.pre[call.group_id][h1] = "yes" /\ call.post[call.group_id][h1] = "first"
        /\ CoversFirst(h2, call.t1, call.t2) /\ CoversSecond(h2, call.t1, call.t2)
        /\ call.post[call.group_id][h2] = "no"
        /\ ~CoversFirst(h3, call.t1, call.t2) /\ ~CoversSecond(h3, call.t1, call.t2)
        /\ call.pre[call.group_id][h3] = "second" /\ call.post[call.group_id][h3] = "second"

\* the half-hours of an hour that a Cell State records as off
OffHalves(state) ==
    IF state = "no" THEN {1, 2}
    ELSE IF state = "first" THEN {1}
    ELSE IF state = "second" THEN {2}
    ELSE {}

\* C2: after put_interval or put_interval_update every half-hour the cell
\* recorded as off before the call is still recorded as off: no recorded
\* outage becomes a less-off state or "yes".
C2_OnlyUpgrades ==
    (IsMapperCall("put_interval") \/ IsMapperCall("put_interval_update")) =>
        \A h \in 1..24 :
            OffHalves(call.pre[call.group_id][h]) \subseteq OffHalves(call.post[call.group_id][h])

\* the single interval of an apply_schedule_update call that does not cross midnight
IsSingleMerge ==
    /\ call.op = "apply_schedule_update"
    /\ Len(call.intervals) = 1 /\ call.intervals[1][2] <= DayEnd
    /\ Len(call.groups) = 1
    /\ target_timestamp(call.target_date, now) \in DOMAIN call.pre.fact.data
    /\ call.groups[1] \in DOMAIN call.pre.fact.data[target_timestamp(call.target_date, now)]

EscalationLaw(before, after, t1, t2) ==
    \A h \in 1..24 :
        LET f == CoversFirst(h, t1, t2)
            s == CoversSecond(h, t1, t2)
        IN  /\ (f /\ ~s /\ before[h] = "second") => after[h] = "no"
            /\ (~f /\ s /\ before[h] = "first") => after[h] = "no"
            /\ (f /\ ~s /\ before[h] = "first") => after[h] = "first"

\* C3: in the merge, an interval covering only the first half of an hour whose
\* cell holds "second" makes it "no"; one covering only the second half of an
\* hour whose cell holds "first" makes it "no"; one covering only the first
\* half of an hour whose cell holds "first" leaves it "first".
C3_Escalation ==
    /\ IsMapperCall("put_interval_update") =>
          EscalationLaw(call.pre[call.group_id], call.post[call.group_id], call.t1, call.t2)
    /\ IsSingleMerge =>
          LET key == target_timestamp(call.target_date, now)
              g == call.groups[1]
          IN  EscalationLaw(call.pre.fact.data[key][g], call.post.fact.data[key][g],
                            call.intervals[1][1], call.intervals[1][2])

C3_Witness ==
    /\ IsSingleMerge
    /\ LET key == target_timestamp(call.target_date, now)
           g == call.groups[1]
           t1 == call.intervals[1][1]
           t2 == call.intervals[1][2]
       IN  \E h \in 1..24 :
              /\ CoversFirst(h, t1, t2) /\ ~CoversSecond(h, t1, t2)
              /\ call.pre.fact.data[key][g][h] = "second"
              /\ call.post.fact.data[key][g][h] = "no"

\* the resolved target day-key of the recorded merge, and whether the document
\* it was given holds a Day Table for it
CallKey == target_timestamp(call.target_date, now)
IsApply == call.op = "apply_schedule_update"
IsUpdateFromMessage == call.op = "update_schedule_from_message" /\ call.applied
KeyMissing == CallKey \notin DOMAIN call.pre.fact.data

\* C8: when the resolved target day-key has no Day Table in fact.data,
\* apply_schedule_update returns false and leaves the whole document as it was,
\* and update_schedule_from_message returns false without writing the file.
C8_MissingDayRejected ==
    /\ (IsApply /\ KeyMissing) => (call.ret = FALSE /\ call.post = call.pre)
    /\ (IsUpdateFromMessage /\ KeyMissing) =>
          /\ call.changes_made = FALSE /\ call.post = call.pre
          /\ call.ret = FALSE /\ call.wrote = FALSE /\ store = call.pre

C8_Witness ==
    /\ IsUpdateFromMessage /\ KeyMissing
    /\ call.io_ok
    /\ DOMAIN call.pre.fact.data /= {}
    /\ \E i \in 1..Len(call.groups) : \E k \in DOMAIN call.pre.fact.data :
          call.groups[i] \in DOMAIN call.pre.fact.data[k]
    /\ \E i \in 1..Len(call.intervals) : touches(call.intervals[i][1], call.intervals[i][2])

\* a target group that the target Day Table lacks, with an interval that marks a cell
AbsentTarget(g) ==
    /\ IsApply /\ ~KeyMissing
    /\ \E i \in 1..Len(call.groups) : call.groups[i] = g
    /\ g \notin DOMAIN call.pre.fact.data[CallKey]
    /\ \E i \in 1..Len(call.intervals) :
          /\ call.intervals[i][2] <= DayEnd
          /\ touches(call.intervals[i][1], call.intervals[i][2])

\* C9 as stated: a target group absent from the target Day Table is first
\* initialised to "yes" for all 24 hours and then marked, so afterwards it is
\* in the Day Table with the interval's cells marked and the call returns true.
C9_AbsentGroupInitialised ==
    \A g \in Groups :
        AbsentTarget(g) =>
            /\ g \in DOMAIN call.post.fact.data[CallKey]
            /\ call.post.fact.data[CallKey][g] /= AllYes
            /\ call.ret = TRUE

\* C9 as amended: apply_schedule_update skips a target group that the target
\* Day Table lacks: the Day Table keeps its groups, the group stays absent and
\* adds nothing to the value returned, which is true exactly when a group that
\* was present changed.  Only put_interval_update itself, called on a table
\* that lacks the group with an interval touching some hour, creates the group
\* from all "yes" and marks it.
C9_AbsentGroupSkipped ==
    /\ (IsApply /\ ~KeyMissing) =>
          /\ DOMAIN call.post.fact.data[CallKey] = DOMAIN call.pre.fact.data[CallKey]
          /\ call.ret = (\E g \in DOMAIN call.pre.fact.data[CallKey] :
                            call.post.fact.data[CallKey][g] /= call.pre.fact.data[CallKey][g])
    /\ (call.op = "put_interval_update" /\ call.group_id \notin DOMAIN call.pre) =>
          IF touches(call.t1, call.t2)
          THEN /\ DOMAIN call.post = DOMAIN call.pre \cup {call.group_id}
               /\ \A h \in 1..24 :
                     (~CoversFirst(h, call.t1, call.t2) /\ ~CoversSecond(h, call.t1, call.t2))
                        <=> call.post[call.group_id][h] = "yes"
          ELSE call.post = call.pre

C9_Witness ==
    \E g \in Groups :
        /\ AbsentTarget(g)
        /\ g \notin DOMAIN call.post.fact.data[CallKey]
        /\ call.ret = TRUE

\* the Hour Map of group g in the target Day Table of document d (Nothing when
\* the document has no such day or group)
TargetMap(d, g) ==
    IF CallKey \in DOMAIN d.fact.data /\ g \in DOMAIN d.fact.data[CallKey]
    THEN Just(d.fact.data[CallKey][g])
    ELSE Nothing

\* C10: apply_schedule_update returns true exactly when the Hour Map of some
\* target group differs after the call from before it; it sets lastUpdated and
\* fact.update to the time of the call when it returns true and leaves both as
\* they were when it returns false.
C10_TrueIffChanged ==
    IsApply =>
        /\ call.ret = (\E i \in 1..Len(call.groups) :
                          TargetMap(call.post, call.groups[i]) /= TargetMap(call.pre, call.groups[i]))
        /\ call.ret =>
              /\ call.post.lastUpdated = utc_stamp(now)
              /\ call.post.fact.update = local_stamp(now)
        /\ ~call.ret =>
              /\ call.post.lastUpdated = call.pre.lastUpdated
              /\ call.post.fact.update = call.pre.fact.update

C10_Witness ==
    /\ IsApply /\ call.ret = TRUE /\ Len(call.groups) = 2
    /\ TargetMap(call.post, call.groups[1]) = TargetMap(call.pre, call.groups[1])
    /\ TargetMap(call.post, call.groups[2]) /= TargetMap(call.pre, call.groups[2])
    /\ call.post.lastUpdated /= call.pre.lastUpdated
    /\ call.post.fact.update /= call.pre.fact.update

----------------------------------------------------------------------------
(* Spec: the store, the watermark and the channel over time.  The three    *)
(* commands of main.py (--parse, --monitor, --update) and the combined     *)
(* --parse --monitor run one at a time; between them the clock advances    *)
(* and the channel page changes.                                           *)

MaxFeed == 2
MaxDay == 1
MaxRuns == 3

T0130 == <<1, 30>>
T2330 == <<23, 30>>

\* the texts of the channel's posts
ScheduleText ==
    <<Skw, DateTok(0), Decl(1, "GPV1.1"), Iv(T0, T0100), Decl(1, "GPV4.2"), Iv(T0030, T0100)>>
UpdateText == <<Kw, Ref(1, "GPV4.2"), Iv(T0, T0130)>>
NoiseText == <<Word>>
TomorrowText == <<Skw, DateTok(1), Decl(2, "GPV1.1"), Iv(T2330, T0030), Warn>>
UntilText == <<Ref(2, "GPV1.1"), Until(T0100)>>

Post(id, date, text) == [id |-> id, date |-> date, text |-> text]

\* the channel's posts in the order it publishes them; the fourth carries a
\* timestamp earlier than the third's and the fifth carries neither an id nor
\* a timestamp
Channel ==
    <<Post("1", Just(10), ScheduleText),
      Post("2", Just(20), UpdateText),
      Post("3", Just(20), NoiseText),
      Post("4", Just(15), TomorrowText),
      Post(None, Nothing, UntilText)>>

\* the texts an operator passes to --update
CommandTexts == {UpdateText, UntilText, NoiseText}

NoPart == [ran |-> FALSE]

Init ==
    /\ store = NoFile
    /\ watermark = NoFile
    /\ feed = <<>>
    /\ published = 0
    /\ now = [day |-> 0, min |-> 0, ms |-> 0]
    /\ call = NoCall
    /\ examined = {}
    /\ merged = {}
    /\ runs = 0

\* time passes within the day, from 00:00 to 00:30
Tick ==
    /\ now.min = 0
    /\ now' = [now EXCEPT !.min = HalfLen]
    /\ UNCHANGED <<store, watermark, feed, published, call, hist, runs>>

NewDay ==
    /\ now.day < MaxDay
    /\ now' = [day |-> now.day + 1, min |-> 0, ms |-> 0]
    /\ call' = NoCall
    /\ merged' = {}
    /\ UNCHANGED <<store, watermark, feed, published, examined, runs>>

\* the channel shows its next post at the top of the page
Publish ==
    /\ Len(feed) < MaxFeed
    /\ published < Len(Channel)
    /\ feed' = <<Channel[published + 1]>> \o feed
    /\ published' = published + 1
    /\ call' = NoCall
    /\ merged' = {}
    /\ UNCHANGED <<store, watermark, now, examined, runs>>

\* the post at the bottom of the page leaves it
Expire ==
    /\ feed /= <<>>
    /\ feed' = SubSeq(feed, 1, Len(feed) - 1)
    /\ call' = NoCall
    /\ merged' = {}
    /\ UNCHANGED <<store, watermark, published, now, examined, runs>>

\* what `call` records of a full-parse cycle and of a monitoring pass
parse_part(r, fetch_ok) ==
    [ran |-> TRUE, fetch_ok |-> fetch_ok, ret |-> r.ret, wrote |-> r.wrote,
     raised |-> r.raised,
     repeat |-> (call.op = "parse" /\ call.parse.fetch_ok /\ ~call.parse.raised)]

\* the posts of a sequence, as a set
RECURSIVE elements(_)
elements(posts) ==
    IF posts = <<>> THEN {} ELSE {Head(posts)} \cup elements(Tail(posts))

monitor_part(r, fetch_ok) ==
    [ran |-> TRUE, fetch_ok |-> fetch_ok, ret |-> r.ret, seen |-> r.seen,
     again |-> elements(r.seen) \cap examined, failed |-> r.failed]

\* the document before and after the write of a cycle or command with result
\* r that started from `file`
written(file, r) == IF r.wrote THEN <<<<file, r.store>>>> ELSE <<>>

\* the effect of a full-parse cycle with result r that no pass follows
parse_only(op, r, fetch_ok) ==
    /\ store' = r.store
    /\ call' = [op |-> op, parse |-> parse_part(r, fetch_ok), monitor |-> NoPart,
                writes |-> written(store, r)]
    /\ runs' = runs + 1
    /\ UNCHANGED <<watermark, feed, published, now, hist>>

\* the effect of a monitoring pass with result r
pass_effect(op, parse, before, r, fetch_ok) ==
    /\ store' = r.store
    /\ watermark' = r.watermark
    /\ call' = [op |-> op, parse |-> parse, monitor |-> monitor_part(r, fetch_ok),
                writes |-> before \o r.writes]
    /\ examined' = examined \cup elements(r.seen)
    /\ merged' = merged \cup r.cells
    /\ runs' = runs + 1
    /\ UNCHANGED <<feed, published, now>>

\* main.py --parse
FullParse ==
    /\ runs < MaxRuns
    /\ \E fetch_ok \in BOOLEAN, io_ok \in BOOLEAN :
          parse_only("parse", parser_main(store, feed, now, fetch_ok, io_ok), fetch_ok)

\* main.py --monitor
MonitorPass ==
    /\ runs < MaxRuns
    /\ \E fetch_ok \in BOOLEAN, io_ok \in BOOLEAN :
          pass_effect("monitor", NoPart, <<>>,
                      monitor_updates(store, watermark, feed, now, fetch_ok, io_ok), fetch_ok)

\* the monitoring pass follows the parse with result r1 unless the parse
\* ended by an exception; it fetches the page again (again_ok)
then_monitor(r1, fetch_ok, again_ok, io_ok) ==
    IF r1.raised
    THEN parse_only("parse_monitor", r1, fetch_ok)
    ELSE pass_effect("parse_monitor", parse_part(r1, fetch_ok), written(store, r1),
                     monitor_updates(r1.store, watermark, feed, now, again_ok, io_ok),
                     again_ok)

\* main.py --parse --monitor
ParseThenMonitor ==
    /\ runs < MaxRuns
    /\ \E fetch_ok \in BOOLEAN, again_ok \in BOOLEAN, io_ok \in BOOLEAN :
          then_monitor(parser_main(store, feed, now, fetch_ok, io_ok),
                       fetch_ok, again_ok, io_ok)

\* the effect of update_schedule_from_message(text) with result r
update_effect(text, r) ==
    /\ store' = r.store
    /\ call' = [op |-> "update", parse |-> NoPart, monitor |-> NoPart,
                text |-> text, ret |-> r.ret, wrote |-> r.wrote,
                writes |-> written(store, r)]
    /\ merged' = merged \cup (IF r.wrote THEN outage_cells(store, r.store) ELSE {})
    /\ runs' = runs + 1
    /\ UNCHANGED <<watermark, feed, published, now, examined>>

\* main.py --update TEXT
UpdateCommand ==
    /\ runs < MaxRuns
    /\ \E text \in CommandTexts, io_ok \in BOOLEAN :
          update_effect(text, update_schedule_from_message(text, Nothing, store, now, io_ok))

Next ==
    \/ Tick
    \/ NewDay
    \/ Publish
    \/ Expire
    \/ FullParse
    \/ MonitorPass
    \/ ParseThenMonitor
    \/ UpdateCommand

Spec == Init /\ [][Next]_vars

----------------------------------------------------------------------------
(* Properties of the full-parse cycle and the monitoring pass, checked     *)
(* under Spec                                                              *)

\* the state of cell c = <<day-key, group, hour>> in the stored document
\* (Nothing when the document has no such cell)
StoredCell(c) ==
    IF store /= NoFile /\ c[1] \in DOMAIN store.fact.data
                       /\ c[2] \in DOMAIN store.fact.data[c[1]]
    THEN Just(store.fact.data[c[1]][c[2]][c[3]])
    ELSE Nothing

\* C4: once an incremental update has been merged into today's Day Table and
\* persisted, every cell it set to an outage state still holds an outage state
\* in the stored document after any later full-parse cycle of the same day
\* over the unchanged posts (`merged` is emptied when the day or the page
\* changes).
C4_UpdatesSurviveParse ==
    \A c \in merged : StoredCell(c) /= Nothing /\ StoredCell(c)[1] \in Outage

IsParse == call.op = "parse"
IsMonitor == call.op \in {"monitor", "parse_monitor"} /\ call.monitor.ran

\* C5: a full-parse cycle that directly follows a completed full-parse cycle
\* on the same day over the same page writes nothing and returns false.
C5_ChangeGate ==
    (IsParse /\ call.parse.repeat) => (~call.parse.wrote /\ call.parse.ret = FALSE)

\* the second of two cycles, the first of which wrote the parsed tables at
\* this very instant
C5_Witness ==
    /\ IsParse /\ call.parse.repeat /\ call.parse.fetch_ok
    /\ store /= NoFile
    /\ store.lastUpdated = utc_stamp(now)
    /\ store.fact.data = collect_results(EmptyDict, fetch_posts(feed), now)
    /\ ~call.parse.wrote

\* C6: no post is examined in more than one monitoring pass: the posts a pass
\* examines were examined by no earlier pass.
C6_NeverTwice ==
    IsMonitor => call.monitor.again = {}

\* the watermark record that identifies post p
mark(p) == [last_id |-> p.id, last_date |-> p.date]

IsCommand == call.op \in {"parse", "monitor", "parse_monitor", "update"}

\* C17: across full-parse cycles, monitoring passes and manual update
\* commands, every write of the Schedule Document stores a fact.data that
\* differs from the fact.data stored immediately before it; the first write to
\* a missing file counts as a change.
C17_WritesOnlyChanges ==
    IsCommand =>
        \A i \in 1..Len(call.writes) :
            \/ call.writes[i][1] = NoFile
            \/ call.writes[i][2].fact.data /= call.writes[i][1].fact.data

\* a parse that replaced a stored document and a pass that then merged an update
C17_Witness ==
    /\ call.op = "parse_monitor"
    /\ Len(call.writes) = 2
    /\ call.writes[1][1] /= NoFile
    /\ call.writes[2][1] = call.writes[1][2]
    /\ store = call.writes[2][2]

\* C18: structural errors abort the whole cycle: when, during a monitoring
\* pass, the merge of an update post fails because the target day-key is
\* missing from the store or because the write of the Schedule Document fails,
\* no post after the failing one is processed in that pass.
C18_FailedMergeEndsPass ==
    IsMonitor =>
        \A i \in 1..Len(call.monitor.seen) :
            call.monitor.failed[i] \in {"missing_day", "write_failed"} =>
                i = Len(call.monitor.seen)

\* the document as the full-parse part of the command of this step left it
AfterParsePart ==
    IF call'.parse.ran /\ call'.parse.wrote THEN call'.writes[1][2] ELSE store

\* C19: a fetch failure mutates nothing.  When the channel fetch fails in a
\* full-parse cycle, the Schedule Document and the watermark after the cycle
\* equal what they were before it, the cycle returns false and no monitoring
\* pass follows; when it fails in a monitoring pass, the document the pass
\* started from and the watermark are unchanged and the pass returns false.
C19_FetchFailureMutatesNothing ==
    [][(runs' /= runs /\ call'.op \in {"parse", "monitor", "parse_monitor"}) =>
          /\ (call'.parse.ran /\ ~call'.parse.fetch_ok) =>
                /\ store' = store
                /\ watermark' = watermark
                /\ call'.parse.ret = FALSE
                /\ call'.writes = <<>>
                /\ ~call'.monitor.ran
          /\ (call'.monitor.ran /\ ~call'.monitor.fetch_ok) =>
                /\ store' = AfterParsePart
                /\ watermark' = watermark
                /\ call'.monitor.ret = FALSE
                /\ call'.monitor.seen = <<>>
                /\ Len(call'.writes) = (IF call'.parse.ran /\ call'.parse.wrote THEN 1 ELSE 0)
      ]_vars

\* a pass whose fetch failed while the page held an update post that a pass
\* with a working fetch would have merged into the stored document
C19_Witness ==
    /\ call.op = "monitor"
    /\ ~call.monitor.fetch_ok
    /\ store /= NoFile
    /\ watermark = NoFile
    /\ monitor_updates(store, watermark, feed, now, TRUE, TRUE).ret = TRUE

\* a full-parse cycle whose fetch failed while the page held a schedule post
\* that differs from the stored document
C19_WitnessParse ==
    /\ call.op = "parse"
    /\ ~call.parse.fetch_ok
    /\ parser_main(store, feed, now, TRUE, TRUE).wrote

\* the Cell State vocabulary the core writes
CellStates == {"yes", "no", "first", "second"}

WellFormedMap(map) ==
    /\ DOMAIN map = HourKeys
    /\ \A h \in HourKeys : map[h] \in CellStates

WellFormedStore(file) ==
    file /= NoFile =>
        \A k \in DOMAIN file.fact.data :
            \A g \in DOMAIN file.fact.data[k] : WellFormedMap(file.fact.data[k][g])

\* C23: starting from an empty store, after any sequence of accepted
\* full-parse writes and incremental merges every Hour Map of fact.data has
\* exactly the 24 keys 1..24 and every cell holds "yes", "no", "first" or
\* "second".
C23_HourMapsWellFormed == WellFormedStore(store)

\* a document that a parse wrote and a merge then changed, holding all four states
C23_Witness ==
    /\ store /= NoFile
    /\ merged /= {}
    /\ \E k \in DOMAIN store.fact.data :
           \A s \in CellStates :
               \E g \in DOMAIN store.fact.data[k], h \in HourKeys :
                   store.fact.data[k][g][h] = s

\* C26: every post the feed delivers to a monitoring pass is examined in that
\* pass or was examined in an earlier one: no post is skipped without ever
\* having been examined, a post whose timestamp equals the stored last_date
\* under another id and a post that appears with a timestamp older than the
\* stored last_date included.
C26_NoPostLost ==
    (IsMonitor /\ call.monitor.fetch_ok) =>
        elements(fetch_recent_posts(feed)) \subseteq examined

\* C30: across monitoring passes over posts with parseable timestamps the
\* watermark never moves backwards: whenever a pass rewrites the watermark
\* record, its new last_date is strictly later than the last_date it replaces.
C30_WatermarkMovesForward ==
    [][(/\ watermark' /= watermark
        /\ watermark /= NoFile
        /\ watermark.last_date /= Nothing
        /\ watermark'.last_date /= Nothing) =>
          watermark'.last_date[1] > watermark.last_date[1]]_vars

\* a pass that examined posts and saved the watermark after an earlier pass
\* had saved one, all posts with timestamps
C30_Witness ==
    /\ IsMonitor
    /\ call.monitor.seen /= <<>>
    /\ examined \ elements(call.monitor.seen) /= {}
    /\ \A p \in examined : p.date /= Nothing
    /\ watermark = mark(call.monitor.seen[Len(call.monitor.seen)])
    /\ \E p \in examined \ elements(call.monitor.seen) : p.date[1] < watermark.last_date[1]

----------------------------------------------------------------------------
(* Further properties of the mapper and the merge, checked under SpecMerge *)

\* the Hour Map the Time-Interval Mapper rule gives from `map` for (t1, t2)
MapperRule(map, t1, t2) ==
    [h \in HourKeys |->
        IF CoversFirst(h, t1, t2) /\ CoversSecond(h, t1, t2) THEN "no"
        ELSE IF CoversFirst(h, t1, t2) THEN "first"
        ELSE IF CoversSecond(h, t1, t2) THEN "second"
        ELSE map[h]]

\* the Hour Map of an interval that crosses midnight, split into (t1, 24:00)
\* and (00:00, t2) and marked on an all-"yes" map
SplitMarks(t1, t2) == MapperRule(MapperRule(AllYes, t1, DayEnd), 0, t2)

\* C11: an explicit update interval "from a to b" with b not later than a is
\* split at midnight before merging: after update_schedule_from_message every
\* half-hour of [a, 24:00) and of [00:00, b) is recorded as off in the Hour Map
\* of every target group the target Day Table holds.
C11_UpdateSplitAtMidnight ==
    (IsUpdateFromMessage /\ ~KeyMissing) =>
        \A i \in 1..Len(call.text) :
            (call.text[i].k = "iv"
                /\ time_to_hour(call.text[i].b) <= time_to_hour(call.text[i].a)) =>
                \A j \in 1..Len(call.groups) :
                    call.groups[j] \in DOMAIN call.pre.fact.data[CallKey] =>
                        \A h \in 1..24 :
                            OffHalves(SplitMarks(time_to_hour(call.text[i].a),
                                                 time_to_hour(call.text[i].b))[h])
                                \subseteq OffHalves(call.post.fact.data[CallKey][call.groups[j]][h])

\* the hour slot [h-1, h], in minutes
SlotStart(h) == (h - 1) * HourLen
SlotEnd(h) == h * HourLen

\* C13: for 0 <= t1 < t2 <= 24 and every starting Hour Map, after put_interval
\* every hour whose slot [h-1, h] lies within [t1, t2] holds "no" and every hour
\* whose slot lies outside [t1, t2] holds the state it had before the call.
C13_ContainedAndOutsideSlots ==
    (IsMapperCall("put_interval") /\ ValidInterval(call.t1, call.t2)) =>
        \A h \in HourKeys :
            /\ (call.t1 <= SlotStart(h) /\ SlotEnd(h) <= call.t2) =>
                   call.post[call.group_id][h] = "no"
            /\ (SlotEnd(h) <= call.t1 \/ call.t2 <= SlotStart(h)) =>
                   call.post[call.group_id][h] = call.pre[call.group_id][h]

C13_Witness ==
    /\ IsMapperCall("put_interval") /\ ValidInterval(call.t1, call.t2)
    /\ \E h1, h2 \in HourKeys :
        /\ call.t1 <= SlotStart(h1) /\ SlotEnd(h1) <= call.t2
        /\ call.pre[call.group_id][h1] = "first"
        /\ call.post[call.group_id][h1] = "no"
        /\ SlotEnd(h2) <= call.t1
        /\ call.pre[call.group_id][h2] = "second"
        /\ call.post[call.group_id][h2] = "second"

\* the Hour Map that is "no" on the hours of `off` and "yes" elsewhere
NoExactlyOn(off) == [h \in HourKeys |-> IF h \in off THEN "no" ELSE "yes"]

\* apply_schedule_update called for group 4.2 with the interval 01:00-05:00 on
\* a document whose target Day Table holds GPV4.2 all "yes"
Applies42From1To5 ==
    /\ IsApply
    /\ call.groups = <<"GPV4.2">>
    /\ call.intervals = <<<<HourLen, 5 * HourLen>>>>
    /\ ~KeyMissing
    /\ "GPV4.2" \in DOMAIN call.pre.fact.data[CallKey]
    /\ call.pre.fact.data[CallKey]["GPV4.2"] = AllYes

\* everything of the document but GPV4.2 of the target day and the two stamps
\* is as before the call
OnlyTargetMapAndStamps ==
    /\ call.post.regionId = call.pre.regionId
    /\ call.post.preset = call.pre.preset
    /\ call.post.fact.today = call.pre.fact.today
    /\ DOMAIN call.post.fact.data = DOMAIN call.pre.fact.data
    /\ \A k \in DOMAIN call.pre.fact.data :
        /\ DOMAIN call.post.fact.data[k] = DOMAIN call.pre.fact.data[k]
        /\ \A g \in DOMAIN call.pre.fact.data[k] :
               (k /= CallKey \/ g /= "GPV4.2") =>
                   call.post.fact.data[k][g] = call.pre.fact.data[k][g]

\* the call stamped the document, and the same call on its result returns
\* false and leaves the document as it is
StampedThenNoOp ==
    /\ call.ret = TRUE
    /\ call.post.lastUpdated = utc_stamp(now)
    /\ call.post.fact.update = local_stamp(now)
    /\ call.post.lastUpdated /= call.pre.lastUpdated
    /\ LET again == apply_schedule_update(call.post, call.groups, call.intervals,
                                          call.target_date, now)
       IN  /\ again.changes_made = FALSE
           /\ again.json_data = call.post

\* C15 (as stated): the update 4.2, 01:00-05:00, applied by
\* apply_schedule_update to a document whose GPV4.2 of the day is all "yes",
\* changes exactly hours 1-5 to "no" and nothing else, stamps lastUpdated and
\* fact.update and returns true; the same call on the result returns false and
\* changes nothing.
C15_UpdateHours1To5 ==
    Applies42From1To5 =>
        /\ call.post.fact.data[CallKey]["GPV4.2"] = NoExactlyOn(1..5)
        /\ OnlyTargetMapAndStamps
        /\ StampedThenNoOp

\* C15 (amended): the same call changes exactly hours 2-5 to "no" and nothing
\* else, stamps lastUpdated and fact.update and returns true; the same call on
\* the result returns false and changes nothing.
C15_UpdateHours2To5 ==
    Applies42From1To5 =>
        /\ call.post.fact.data[CallKey]["GPV4.2"] = NoExactlyOn(2..5)
        /\ OnlyTargetMapAndStamps
        /\ StampedThenNoOp

C15_Witness ==
    /\ Applies42From1To5
    /\ call.ret = TRUE
    /\ call.post.fact.data[CallKey]["GPV4.2"][1] = "yes"
    /\ call.post.fact.data[CallKey]["GPV4.2"][2] = "no"
    /\ call.post.lastUpdated = utc_stamp(now)
    /\ \E g \in DOMAIN call.pre.fact.data[CallKey] \ {"GPV4.2"} :
           call.pre.fact.data[CallKey][g] /= AllYes

\* an update message that names no group, or gives no time interval
NamesNoGroup(text) == \A i \in 1..Len(text) : text[i].k /= "ref"
GivesNoInterval(text) == \A i \in 1..Len(text) : text[i].k \notin {"iv", "until"}
IncompleteUpdate ==
    /\ call.op = "update_schedule_from_message"
    /\ is_update_message(call.text)
    /\ NamesNoGroup(call.text) \/ GivesNoInterval(call.text)

\* C16: an update message from which no group, or no time interval, can be
\* extracted is rejected as a whole: process_update_message returns none,
\* update_schedule_from_message returns false without reaching the merge, and
\* the stored document is not modified.
C16_IncompleteUpdateRejected ==
    IncompleteUpdate =>
        /\ process_update_message(call.text, now).found = FALSE
        /\ call.applied = FALSE
        /\ call.ret = FALSE
        /\ call.wrote = FALSE
        /\ store = call.pre

C16_Witness ==
    /\ IncompleteUpdate
    /\ NamesNoGroup(call.text)
    /\ ~GivesNoInterval(call.text)
    /\ call.io_ok
    /\ call.pre /= NoFile
    /\ CallKey \in DOMAIN call.pre.fact.data
    /\ store = call.pre

C16_WitnessNoInterval ==
    /\ IncompleteUpdate
    /\ GivesNoInterval(call.text)
    /\ ~NamesNoGroup(call.text)
    /\ call.pre /= NoFile
    /\ call.ret = FALSE

\* C25: apply_schedule_update is idempotent for every starting document:
\* applying the same groups, intervals and target date again, right after the
\* first application, returns false and leaves every cell and both timestamps
\* unchanged, whatever states the target cells held before.
C25_ApplyIdempotent ==
    IsApply =>
        LET again == apply_schedule_update(call.post, call.groups, call.intervals,
                                           call.target_date, now)
        IN  /\ again.changes_made = FALSE
            /\ again.json_data = call.post

\* the target groups of the call, as a set
ListedGroups == {call.groups[i] : i \in 1..Len(call.groups)}

\* C29: apply_schedule_update changes nothing outside its target: for every
\* input, the Day Tables of all day-keys other than the resolved target
\* day-key, the Hour Maps of all groups of the target day that groups does not
\* list, and regionId, fact.today and preset are the same before and after.
C29_FrameOfApply ==
    IsApply =>
        /\ call.post.regionId = call.pre.regionId
        /\ call.post.preset = call.pre.preset
        /\ call.post.fact.today = call.pre.fact.today
        /\ \A k \in DOMAIN call.pre.fact.data \ {CallKey} :
               /\ k \in DOMAIN call.post.fact.data
               /\ call.post.fact.data[k] = call.pre.fact.data[k]
        /\ DOMAIN call.post.fact.data \ {CallKey} \subseteq DOMAIN call.pre.fact.data
        /\ ~KeyMissing =>
               /\ \A g \in DOMAIN call.pre.fact.data[CallKey] \ ListedGroups :
                      /\ g \in DOMAIN call.post.fact.data[CallKey]
                      /\ call.post.fact.data[CallKey][g] = call.pre.fact.data[CallKey][g]
               /\ DOMAIN call.post.fact.data[CallKey] \ ListedGroups
                      \subseteq DOMAIN call.pre.fact.data[CallKey]

\* a call that changed its target group on a document of two days whose target
\* day holds a second group
C29_Witness ==
    /\ IsApply
    /\ call.ret = TRUE
    /\ ~KeyMissing
    /\ DOMAIN call.pre.fact.data \ {CallKey} /= {}
    /\ DOMAIN call.pre.fact.data[CallKey] \ ListedGroups /= {}
    /\ \E g \in ListedGroups :
           call.post.fact.data[CallKey][g] /= call.pre.fact.data[CallKey][g]

----------------------------------------------------------------------------
(* SpecParse: the parsers as functions.  Each behaviour is one call,       *)
(* recorded in `call` with its input and its output: of                    *)
(* parse_schedule_from_text on a post text of at most MaxTokens tokens, of *)
(* parse_group_number on a message of at most MaxTokens group references,  *)
(* or of the parser's main on a page of at most MaxPage schedule posts,    *)
(* from the document and the day that Init draws.                          *)

MaxTokens == 3

T0230 == <<2, 30>>
T0500 == <<5, 0>>

ParseTokens ==
    {Decl(1, "GPV1.1"), Decl(2, "GPV4.2"),
     Iv(T0100, T0500), Iv(T2330, T0230), Iv(T0, T0030), Iv(T0030, T0100),
     Iv(T0100, T0030), Warn, Word}

ParseTexts == SeqsUpTo(ParseTokens, MaxTokens)

\* the four reference forms: 1 "підчерги", 2 "черги", 3 "підчерга", 4 "черга"
RefTokens == {Ref(f, g) : f \in 1..NumPatterns, g \in Groups}
RefTexts == SeqsUpTo(RefTokens, MaxTokens)

MaxPage == 2
MaxDate == 2

\* a schedule post of date d for group g, one without a date, one whose date
\* is followed by no declaration, and a post that is no schedule
DatedText(d, g) == <<Skw, DateTok(d), Decl(1, g), Iv(T0100, T0500)>>
PageTexts ==
    {DatedText(d, g) : d \in 0..MaxDate, g \in Groups}
        \cup {<<Skw, Decl(1, "GPV1.1"), Iv(T0, T0100)>>, <<Skw, DateTok(1)>>, NoiseText}
Pages == SeqsUpTo({Post(None, Nothing, t) : t \in PageTexts}, MaxPage)

\* no document, the document a parse of DatedText(0, "GPV1.1") wrote, and one
\* that a merge changed since
ParseStores ==
    {NoFile,
     new_json([k \in {day_key(0)} |-> parse_schedule_from_text(DatedText(0, "GPV1.1"))],
              EarlierClock),
     new_json([k \in {day_key(0)} |-> [g \in {"GPV1.1"} |-> NoExactlyOn(1..5)]],
              EarlierClock)}

InitParse ==
    /\ store \in ParseStores
    /\ watermark = NoFile
    /\ feed = <<>>
    /\ published = 0
    /\ now \in {[day |-> d, min |-> 0, ms |-> 0] : d \in 0..MaxDay}
    /\ call = NoCall
    /\ examined = {}
    /\ merged = {}
    /\ runs = 0

CallParseText ==
    /\ call = NoCall
    /\ \E text \in ParseTexts :
          call' = [op |-> "parse_schedule_from_text", text |-> text,
                   result |-> parse_schedule_from_text(text)]
    /\ UNCHANGED <<store, watermark, feed, published, now, hist, runs>>

CallParseGroupNumber ==
    /\ call = NoCall
    /\ \E text \in RefTexts :
          call' = [op |-> "parse_group_number", text |-> text,
                   groups |-> parse_group_number(text)]
    /\ UNCHANGED <<store, watermark, feed, published, now, hist, runs>>

CallParserMain ==
    /\ call = NoCall
    /\ \E page \in Pages, fetch_ok \in BOOLEAN, io_ok \in BOOLEAN :
          LET r == parser_main(store, page, now, fetch_ok, io_ok)
          IN  /\ store' = r.store
              /\ call' = [op |-> "parser_main", page |-> page, fetch_ok |-> fetch_ok,
                          io_ok |-> io_ok, pre |-> store, ret |-> r.ret,
                          wrote |-> r.wrote, raised |-> r.raised,
                          candidate |-> r.candidate, key_order |-> r.key_order]
    /\ UNCHANGED <<watermark, feed, published, now, hist, runs>>

NextParse ==
    \/ CallParseText
    \/ CallParseGroupNumber
    \/ CallParserMain

SpecParse == InitParse /\ [][NextParse]_vars

IsParseText == call.op = "parse_schedule_from_text"

\* a text that is one group declaration followed by one interval
OneGroupOneInterval ==
    /\ IsParseText
    /\ Len(call.text) = 2
    /\ call.text[1].k = "decl"
    /\ call.text[2].k = "iv"

\* C12: the full parser splits an interval whose end is not later than its
\* start into (t1, 24:00) and (00:00, t2) and marks both pieces in the Hour Map
\* of the declared group; 23:30-02:30 on an all-"yes" map gives hour 24
\* "second", hours 1 and 2 "no", hour 3 "first", every other hour "yes".
C12_ParserSplitsAtMidnight ==
    (OneGroupOneInterval
        /\ time_to_hour(call.text[2].b) <= time_to_hour(call.text[2].a)) =>
        /\ DOMAIN call.result = {call.text[1].g}
        /\ call.result[call.text[1].g]
               = SplitMarks(time_to_hour(call.text[2].a), time_to_hour(call.text[2].b))
        /\ (call.text[2].a = T2330 /\ call.text[2].b = T0230) =>
               call.result[call.text[1].g]
                   = [h \in HourKeys |->
                         IF h = LastHour THEN "second"
                         ELSE IF h \in {1, 2} THEN "no"
                         ELSE IF h = 3 THEN "first"
                         ELSE "yes"]

C12_Witness ==
    /\ OneGroupOneInterval
    /\ call.text[2].a = T2330
    /\ call.text[2].b = T0230
    /\ call.result[call.text[1].g][LastHour] = "second"
    /\ call.result[call.text[1].g][3] = "first"

\* a post that declares group 4.2 with the single interval 01:00-05:00
Declares42From1To5 ==
    /\ IsParseText
    /\ call.text = <<Decl(2, "GPV4.2"), Iv(T0100, T0500)>>

\* C14 (as stated): parsing a post that declares group 4.2 with the single
\* interval 01:00-05:00 yields exactly the group GPV4.2 with hours 1-5 "no" and
\* the other 19 hours "yes".
C14_Hours1To5 ==
    Declares42From1To5 =>
        /\ DOMAIN call.result = {"GPV4.2"}
        /\ call.result["GPV4.2"] = NoExactlyOn(1..5)

\* C14 (amended): parsing a post that declares group 4.2 with the single
\* interval 01:00-05:00 yields exactly the group GPV4.2 with hours 2-5 "no" and
\* the other 20 hours, hour 1 (00:00-01:00) among them, "yes".
C14_Hours2To5 ==
    Declares42From1To5 =>
        /\ DOMAIN call.result = {"GPV4.2"}
        /\ call.result["GPV4.2"] = NoExactlyOn(2..5)

C14_Witness ==
    /\ Declares42From1To5
    /\ call.result["GPV4.2"][1] = "yes"
    /\ call.result["GPV4.2"][2] = "no"
    /\ call.result["GPV4.2"][5] = "no"
    /\ call.result["GPV4.2"][6] = "yes"

\* the date a post's text carries is today's or tomorrow's at the parse time
TodayOrTomorrow(post) ==
    /\ extract_date_from_post(post.text) /= Nothing
    /\ extract_date_from_post(post.text)[1] \in {now.day, now.day + 1}

RECURSIVE CurrentPosts(_)
CurrentPosts(page) ==
    IF page = <<>> THEN <<>>
    ELSE (IF TodayOrTomorrow(Head(page)) THEN <<Head(page)>> ELSE <<>>)
             \o CurrentPosts(Tail(page))

IsParserWrite == call.op = "parser_main" /\ call.wrote

\* C20: immediately after every accepted full-parse write, every day-key of
\* fact.data is the local-midnight timestamp of today or of tomorrow at the
\* parse time, and the posts of any other date contribute no Day Table: the
\* stored fact.data is the one the page without those posts gives.
C20_OnlyTodayAndTomorrow ==
    IsParserWrite =>
        /\ DOMAIN store.fact.data \subseteq {day_key(now.day), day_key(now.day + 1)}
        /\ store.fact.data
               = collect_results(EmptyDict, fetch_posts(CurrentPosts(call.page)), now)

\* a write on day 1 from a page that holds a post of day 0 above one of day 2,
\* over a stored document that held day 0
C20_Witness ==
    /\ IsParserWrite
    /\ now.day = 1
    /\ call.pre /= NoFile
    /\ day_key(0) \in DOMAIN call.pre.fact.data
    /\ Len(call.page) = 2
    /\ extract_date_from_post(call.page[1].text) = Just(0)
    /\ extract_date_from_post(call.page[2].text) = Just(2)
    /\ DOMAIN store.fact.data = {day_key(2)}

\* the groups a post text declares
DeclaredGroups(text) == {text[i].g : i \in {j \in 1..Len(text) : text[j].k = "decl"}}

\* C21: the Day Table the full parser returns holds exactly the groups that a
\* declaration marker of the post declares: a group the post does not declare
\* is absent, and a post with no declaration yields the empty table.
C21_ExactlyDeclaredGroups ==
    IsParseText =>
        /\ DOMAIN call.result = DeclaredGroups(call.text)
        /\ (DeclaredGroups(call.text) = {}) => call.result = EmptyDict

\* a post that declares one group of the two and gives an interval
C21_Witness ==
    /\ IsParseText
    /\ DeclaredGroups(call.text) = {"GPV1.1"}
    /\ \E i \in 1..Len(call.text) : call.text[i].k = "iv"
    /\ DOMAIN call.result = {"GPV1.1"}
    /\ call.result["GPV1.1"] /= AllYes

\* a post with intervals and no declaration
C21_WitnessNoDeclaration ==
    /\ IsParseText
    /\ Len(call.text) = MaxTokens
    /\ \A i \in 1..Len(call.text) : call.text[i].k = "iv"
    /\ call.result = EmptyDict

\* the group IDs of the references of a message, each once, in the order of
\* their first occurrence in the text
RECURSIVE FirstSeen(_, _, _)
FirstSeen(groups, text, i) ==
    IF i > Len(text) THEN groups
    ELSE FirstSeen(IF text[i].k = "ref" /\ ~\E j \in 1..Len(groups) : groups[j] = text[i].g
                   THEN Append(groups, text[i].g)
                   ELSE groups,
                   text, i + 1)

\* C22: the group list extracted from an update message holds each referenced
\* group ID once, in the order of the IDs' first occurrence in the message
\* text, whichever of the four reference forms each occurrence uses.
C22_FirstSeenOrder ==
    call.op = "parse_group_number" => call.groups = FirstSeen(<<>>, call.text, 1)

\* the half-hours (1 the first, 2 the second) of hour h that some interval of
\* the text covers, an interval ending not later than it starts counting as (t1, 24:00) and (00:00, t2)
CoveredHalves(text, h) ==
    {half \in {1, 2} :
        \E i \in 1..Len(text) :
            /\ text[i].k = "iv"
            /\ LET t1 == time_to_hour(text[i].a)
                   t2 == time_to_hour(text[i].b)
                   covers(x, y) == IF half = 1 THEN CoversFirst(h, x, y)
                                   ELSE CoversSecond(h, x, y)
               IN  IF t2 <= t1 THEN covers(t1, DayEnd) \/ covers(0, t2)
                   ELSE covers(t1, t2)}

\* a text that is one declaration followed by intervals only
OneGroupIntervals ==
    /\ IsParseText
    /\ Len(call.text) >= 2
    /\ call.text[1].k = "decl"
    /\ \A i \in 2..Len(call.text) : call.text[i].k = "iv"

\* C24: in the full parser the final Hour Map of a declared group has union
\* semantics: a half-hour is recorded as off if and only if at least one of
\* the group's intervals (after midnight splitting) covers it, whatever the
\* order of the intervals, two intervals that each cover a different half of
\* the same hour included.
C24_UnionOfIntervals ==
    OneGroupIntervals =>
        \A h \in HourKeys :
            OffHalves(call.result[call.text[1].g][h]) = CoveredHalves(call.text, h)

IsParserMain == call.op = "parser_main" /\ call.fetch_ok

\* the posts of the page, by index, that carry date d and yield a table
Yielding(page, d) ==
    {i \in 1..Len(page) :
        /\ is_schedule_post(page[i].text)
        /\ extract_date_from_post(page[i].text) = Just(d)
        /\ parse_schedule_from_text(page[i].text) /= EmptyDict}

First(S) == CHOOSE i \in S : \A j \in S : i <= j

\* C27: in a full-parse cycle, for each of today and tomorrow the Day Table of
\* the candidate is the one parsed from the first post in feed order that
\* carries that date and yields a non-empty table: a later post of the date
\* never replaces it, and a post of the date that yields an empty table does
\* not keep a later post of the date from being used.
C27_FirstYieldingPostWins ==
    IsParserMain =>
        \A d \in {now.day, now.day + 1} :
            IF Yielding(call.page, d) = {}
            THEN day_key(d) \notin DOMAIN call.candidate
            ELSE /\ day_key(d) \in DOMAIN call.candidate
                 /\ call.candidate[day_key(d)]
                        = parse_schedule_from_text(call.page[First(Yielding(call.page, d))].text)

\* two posts of today with different tables: the first one is in the candidate
C27_Witness ==
    /\ IsParserMain
    /\ Yielding(call.page, now.day) = {1, 2}
    /\ parse_schedule_from_text(call.page[1].text)
           /= parse_schedule_from_text(call.page[2].text)
    /\ call.candidate[day_key(now.day)] = parse_schedule_from_text(call.page[1].text)

\* a post of tomorrow without a table above one with a table: the second is used
C27_WitnessEmptyFirst ==
    /\ IsParserMain
    /\ Len(call.page) = 2
    /\ extract_date_from_post(call.page[1].text) = Just(now.day + 1)
    /\ Yielding(call.page, now.day + 1) = {2}
    /\ call.candidate[day_key(now.day + 1)] = parse_schedule_from_text(call.page[2].text)

\* C28: an accepted full-parse write replaces fact.data wholesale with exactly
\* the candidate: afterwards fact.data has exactly the candidate's day-keys,
\* written in ascending numeric order, every stored Day Table whose day-key is
\* not in the candidate is gone, and under a day-key of the candidate no group
\* or cell of the stored table survives.
C28_WholesaleReplacement ==
    (IsParserMain /\ call.wrote) =>
        /\ store.fact.data = call.candidate
        /\ DOMAIN store.fact.data = DOMAIN call.candidate
        /\ Len(call.key_order) = Cardinality(DOMAIN call.candidate)
        /\ \A k \in DOMAIN call.candidate : \E i \in 1..Len(call.key_order) : call.key_order[i] = k
        /\ \A i \in 1..Len(call.key_order), j \in 1..Len(call.key_order) :
               i < j => call.key_order[i] < call.key_order[j]
        /\ call.pre /= NoFile =>
               /\ \A k \in DOMAIN call.pre.fact.data \ DOMAIN call.candidate :
                      k \notin DOMAIN store.fact.data
               /\ \A k \in DOMAIN call.pre.fact.data \cap DOMAIN call.candidate :
                      store.fact.data[k] = call.candidate[k]

\* on day 0 the page shows tomorrow's post above today's, today's post declares
\* another group than the stored table of today holds
C28_Witness ==
    /\ IsParserMain /\ call.wrote
    /\ now.day = 0
    /\ call.pre /= NoFile
    /\ "GPV1.1" \in DOMAIN call.pre.fact.data[day_key(0)]
    /\ Len(call.page) = 2
    /\ extract_date_from_post(call.page[1].text) = Just(1)
    /\ extract_date_from_post(call.page[2].text) = Just(0)
    /\ call.key_order = <<day_key(0), day_key(1)>>
    /\ DOMAIN store.fact.data[day_key(0)] = {"GPV4.2"}

\* on day 1 the stored table of day 0 is dropped
C28_WitnessStaleDay ==
    /\ IsParserMain /\ call.wrote
    /\ now.day = 1
    /\ call.pre /= NoFile
    /\ day_key(0) \in DOMAIN call.pre.fact.data
    /\ day_key(0) \notin DOMAIN store.fact.data

====
